---- MODULE Spec2Model ----
(***************************************************************************)
(* State-machine model of backend/app.py: the seeded bandit environments,  *)
(* the in-memory play-session store PLAY with its TTL sweep, and the       *)
(* /api/play/* and /api/plot handlers.  Each handler body runs without an  *)
(* await between its store lookup and its return, so one handler is one    *)
(* atomic action.  Rewards, probabilities, means and deviations are kept   *)
(* in tenths (fixed point): 1.0 is Fix(1) = 10.                            *)
(***************************************************************************)
EXTENDS Integers, Sequences, FiniteSets, TLC

VARIABLES PLAY, now, issued, resp, algo, twin, out, drive, seen

\* the server: the session store, the clock, the ids handed out and the
\* response of the last request
vars == <<PLAY, now, issued, resp>>

\* one policy object exercised on its own: the object, a second object kept
\* in lockstep with it, the result of the last call, and a record of the
\* calls made so far
pvars == <<algo, twin, out, drive>>

\* an earlier plot response of a seeded session, kept for comparison
aux == <<algo, twin, out, drive, seen>>

allvars == <<PLAY, now, issued, resp, algo, twin, out, drive, seen>>

(* ------------------------------ bounds -------------------------------- *)

\* environment draws a session may take after construction
MaxDraws == 2
\* seconds the clock may advance beyond one whole TTL period
MaxJitter == 1
\* resolution of one raw draw of the random generator
Quanta == 4
\* update calls one policy object receives
MaxUpdates == 3
\* select_action calls one policy object receives
MaxSelects == 3

\* the session ids uuid4 can hand out, and the ids requests can name
Ids == {1, 2}
\* /api/play/start payloads: two valid ones and two that fail validation
StartInputs ==
    { [env |-> "bernoulli", n_actions |-> 2, iterations |-> 2, seed |-> <<0>>],
      [env |-> "gaussian", n_actions |-> 3, iterations |-> 1, seed |-> <<>>],
      [env |-> "bernoulli", n_actions |-> 1, iterations |-> 1, seed |-> <<0>>],
      [env |-> "gaussian", n_actions |-> 2, iterations |-> 0, seed |-> <<>>] }
\* values the operating system's entropy can seed an unseeded generator with
Entropy == {1, 2}
\* requested arms (PlayStepReq admits only action >= 0): one arm every
\* session has, one only the three-armed session has, one no session has
ActionInputs == {0, 2, 3}
\* iterations of the plot requests sent while the store is explored
PlotIterInputs == {<<>>, <<3>>}
\* seconds between the two clock readings of one handler
GcLags == {0, 1}

(* --------------------------- program constants ------------------------ *)

PLAY_TTL == 1800

Fix(x) == 10 * x

(* ------------------------- random.Random(seed) ------------------------ *)

\* The k-th raw output of the generator seeded with `key`, as a level in
\* 0..Quanta-1 (level u stands for the float u / Quanta in [0, 1)).
Rand(key, pos) == ((key + 2) * (pos + 1) * (pos + 3) + pos + key) % Quanta

\* variant: the seed is not handed to the generator
NewRngUnseeded(seed, entropy) == [key |-> entropy, pos |-> 0]

\* random.Random(seed): the seed when given, operating-system entropy when None
NewRng(seed, entropy) == [key |-> IF seed = <<>> THEN entropy ELSE seed[1], pos |-> 0]

\* rng.random(), in tenths
RandomTenths(rng) == (10 * Rand(rng.key, rng.pos)) \div Quanta

\* rng.uniform(lo, hi) = lo + (hi - lo) * random(), bounds and result in tenths
Uniform(rng, k, lo, hi) == lo + ((hi - lo) * Rand(rng.key, rng.pos + k)) \div Quanta

\* rng.gauss(mu, sigma) = mu + z * sigma, z the standard normal variate drawn
Gauss(rng, mu, sigma) == mu + (Rand(rng.key, rng.pos) - (Quanta \div 2)) * sigma

Advance(rng, k) == [rng EXCEPT !.pos = @ + k]

(* ----------------------------- environments --------------------------- *)

BernoulliReset(n, rng) ==
    [type |-> "bernoulli", n_actions |-> n,
     p |-> [i \in 1..n |-> Uniform(rng, i - 1, 1, 9)],
     means |-> <<>>, stds |-> <<>>,
     rng |-> Advance(rng, n)]

GaussianReset(n, rng) ==
    [type |-> "gaussian", n_actions |-> n,
     p |-> <<>>,
     means |-> [i \in 1..n |-> Uniform(rng, i - 1, -10, 10)],
     stds |-> [i \in 1..n |-> Uniform(rng, n + i - 1, 1, 10)],
     rng |-> Advance(rng, 2 * n)]

make_env(env_type, n, seed, entropy) ==
    IF env_type = "bernoulli"
    THEN BernoulliReset(n, NewRng(seed, entropy))
    ELSE GaussianReset(n, NewRng(seed, entropy))

\* env.step(action): the reward returned; arms are 0-based in the code
StepReward(env, action) ==
    IF env.type = "bernoulli"
    THEN (IF RandomTenths(env.rng) < env.p[action + 1] THEN Fix(1) ELSE 0)
    ELSE Gauss(env.rng, env.means[action + 1], env.stds[action + 1])

\* env.step(action): the environment afterwards (one draw consumed)
StepEnv(env) == [env EXCEPT !.rng = Advance(@, 1)]

EnvInfo(env) ==
    [n_actions |-> env.n_actions, type |-> env.type,
     p |-> env.p, means |-> env.means, stds |-> env.stds]

\* draws the constructor of an environment consumes
InitialPos(env) == IF env.type = "bernoulli" THEN env.n_actions ELSE 2 * env.n_actions

(* ------------------------------- policies ----------------------------- *)

\* One position of a generator is one call of one of its methods (random,
\* uniform, gauss, randrange, choice, one gamma variate).  Q-values are exact
\* means, kept in units of 1 / (10 * QUnit) so that every incremental-mean
\* step of at most MaxUpdates updates is an exact division.
RECURSIVE Fact(_)
Fact(k) == IF k <= 1 THEN 1 ELSE k * Fact(k - 1)

QUnit == Fact(MaxUpdates)

\* max(values) of a non-empty list
Max(values) ==
    CHOOSE v \in {values[i] : i \in DOMAIN values} :
        \A i \in DOMAIN values : values[i] <= v

\* [i for i, q in enumerate(values) if q == max(values)]: 0-based arms, ascending
Candidates(values) ==
    LET max_q == Max(values)
        InMax(a) == values[a + 1] = max_q
    IN SelectSeq([i \in 1..Len(values) |-> i - 1], InMax)

\* rng.choice(candidates)
Choice(rng, candidates) ==
    candidates[1 + (Rand(rng.key, rng.pos) * Len(candidates)) \div Quanta]

\* rng.randrange(n)
Randrange(rng, n) == (Rand(rng.key, rng.pos) * n) \div Quanta

\* math.log(n) in thousandths, for the step counts the bounds allow
LnMilli(n) == <<0, 693, 1099, 1386, 1609, 1792, 1946, 2079, 2197, 2303>>[n]

\* the largest r in lo..hi with r * r <= x
RECURSIVE Isqrt(_, _, _)
Isqrt(x, lo, hi) ==
    IF lo >= hi THEN lo
    ELSE LET mid == (lo + hi + 1) \div 2
         IN IF mid * mid <= x THEN Isqrt(x, mid, hi) ELSE Isqrt(x, lo, mid - 1)

\* math.sqrt of x / 1000, rounded down to hundredths and then to units of
\* 1 / (10 * QUnit)
SqrtUnits(x) == (Isqrt(10 * x, 0, 255) * QUnit) \div 10

\* rng.betavariate(alpha, beta) = y / (y + z) with y, z gamma variates of
\* shapes alpha and beta, in hundredths; draws k and k + 1 of the generator
BetaVariate(rng, k, alpha, beta) ==
    LET y == Rand(rng.key, rng.pos + k) + alpha
        z == Rand(rng.key, rng.pos + k + 1) + beta
    IN (100 * y) \div (y + z)

\* AlgorithmBase.__init__ plus the fields of every subclass (<<>>: not set);
\* calls is the state an external function keeps between its calls
AlgorithmBase(kind, n, seed, entropy) ==
    [kind |-> kind, n_actions |-> n, rng |-> NewRng(seed, entropy),
     epsilon |-> 0, q_values |-> <<>>, counts |-> <<>>, total_steps |-> 0,
     successes |-> <<>>, failures |-> <<>>,
     entry |-> "", t |-> 0, last_action |-> <<>>, last_reward |-> <<>>,
     seed |-> seed, calls |-> 0]

Greedy(n, seed, entropy) ==
    [AlgorithmBase("greedy", n, seed, entropy) EXCEPT
        !.q_values = [i \in 1..n |-> 0], !.counts = [i \in 1..n |-> 0]]

\* epsilon in tenths
EpsilonGreedy(n, seed, entropy, epsilon) ==
    [AlgorithmBase("epsilon_greedy", n, seed, entropy) EXCEPT
        !.epsilon = epsilon,
        !.q_values = [i \in 1..n |-> 0], !.counts = [i \in 1..n |-> 0]]

UCB1(n, seed, entropy) ==
    [AlgorithmBase("ucb1", n, seed, entropy) EXCEPT
        !.q_values = [i \in 1..n |-> 0], !.counts = [i \in 1..n |-> 0]]

ThompsonSampling(n, seed, entropy) ==
    [AlgorithmBase("thompson", n, seed, entropy) EXCEPT
        !.successes = [i \in 1..n |-> 1], !.failures = [i \in 1..n |-> 1]]

\* the result of one select_action call: the arm, what was raised ("" for a
\* normal return, else the class the except clauses see) and the object after
Selected(action, a) == [raised |-> "", action |-> action, algo |-> a]

Raised(class, a) == [raised |-> class, action |-> 0, algo |-> a]

\* variant: the first arm of the maximum is taken
Greedy_select_action_first(g) ==
    Selected(Candidates(g.q_values)[1], [g EXCEPT !.rng = Advance(@, 1)])

Greedy_select_action(g) ==
    Selected(Choice(g.rng, Candidates(g.q_values)), [g EXCEPT !.rng = Advance(@, 1)])

\* counts[action] += 1; q_values[action] += (reward - q_values[action]) / n
MeanUpdate(a, action, reward) ==
    LET n == a.counts[action + 1] + 1
        q == a.q_values[action + 1]
    IN [a EXCEPT !.counts[action + 1] = n,
                 !.q_values[action + 1] = q + (reward * QUnit - q) \div n]

Greedy_update(g, action, reward) == MeanUpdate(g, action, reward)

EpsilonGreedy_select_action(e) ==
    LET r1 == Advance(e.rng, 1)
        e2 == [e EXCEPT !.rng = Advance(@, 2)]
    IN IF RandomTenths(e.rng) < e.epsilon
       THEN Selected(Randrange(r1, e.n_actions), e2)
       ELSE Selected(Choice(r1, Candidates(e.q_values)), e2)

EpsilonGreedy_update(e, action, reward) == MeanUpdate(e, action, reward)

\* q + sqrt(2 ln(total_steps) / counts): math.log raises on 0, the division
\* on a zero count
UcbDefined(u) == u.total_steps >= 1 /\ \A i \in 1..u.n_actions : u.counts[i] # 0

ucb_values(u) ==
    [i \in 1..u.n_actions |->
        u.q_values[i] + SqrtUnits((2 * LnMilli(u.total_steps)) \div u.counts[i])]

\* variant: no arm is tried first, the score is computed at once
UCB1_select_action_no_cold_start(u) ==
    LET u1 == [u EXCEPT !.total_steps = @ + 1]
    IN IF ~UcbDefined(u1)
       THEN Raised("Exception", u1)
       ELSE Selected(Choice(u1.rng, Candidates(ucb_values(u1))),
                     [u1 EXCEPT !.rng = Advance(@, 1)])

\* variant: the untried arm of highest index is tried first
UCB1_select_action_last_first(u) ==
    LET u1 == [u EXCEPT !.total_steps = @ + 1]
        untried == {i \in 1..u.n_actions : u.counts[i] = 0}
    IN IF untried # {}
       THEN Selected((CHOOSE i \in untried : \A j \in untried : j <= i) - 1, u1)
       ELSE Selected(Choice(u1.rng, Candidates(ucb_values(u1))),
                     [u1 EXCEPT !.rng = Advance(@, 1)])

UCB1_select_action(u) ==
    LET u1 == [u EXCEPT !.total_steps = @ + 1]
        untried == {i \in 1..u.n_actions : u.counts[i] = 0}
    IN IF untried # {}
       THEN Selected((CHOOSE i \in untried : \A j \in untried : i <= j) - 1, u1)
       ELSE IF ~UcbDefined(u1)
       THEN Raised("Exception", u1)
       ELSE Selected(Choice(u1.rng, Candidates(ucb_values(u1))),
                     [u1 EXCEPT !.rng = Advance(@, 1)])

UCB1_update(u, action, reward) == MeanUpdate(u, action, reward)

\* random.betavariate raises ValueError unless both parameters are positive
ThompsonSampling_select_action(ts) ==
    LET n == ts.n_actions
        samples == [i \in 1..n |->
                       BetaVariate(ts.rng, 2 * (i - 1), ts.successes[i], ts.failures[i])]
    IN IF \E i \in 1..n : ts.successes[i] <= 0 \/ ts.failures[i] <= 0
       THEN Raised("Exception", ts)
       ELSE Selected(Choice(Advance(ts.rng, 2 * n), Candidates(samples)),
                     [ts EXCEPT !.rng = Advance(@, 2 * n + 1)])

\* variant: every positive reward counts as a success
ThompsonSampling_update_positive(ts, action, reward) ==
    IF reward > 0
    THEN [ts EXCEPT !.successes[action + 1] = @ + 1]
    ELSE [ts EXCEPT !.failures[action + 1] = @ + 1]

ThompsonSampling_update(ts, action, reward) ==
    IF reward = Fix(1)
    THEN [ts EXCEPT !.successes[action + 1] = @ + 1]
    ELSE [ts EXCEPT !.failures[action + 1] = @ + 1]

(* --------------------- externally supplied algorithms ------------------ *)

\* The functions found in the algorithm store, as what they do when called
\* with the adapter's state snapshot; calls counts the earlier calls of the
\* function in this batch (its own module-level state).
\*   cycle: the tick number, which leaves the arm range after n_actions ticks
\*   walk:  2 * t - 1, below the arm range at first and above it later
\*   flaky: raises ValueError on its second call
\*   exit:  calls sys.exit() on its second call
Entry(fn, state, calls) ==
    IF fn = "cycle" THEN [kind |-> "value", v |-> state.t]
    ELSE IF fn = "walk" THEN [kind |-> "value", v |-> 2 * state.t - 1]
    ELSE IF fn = "flaky"
    THEN (IF calls = 1 THEN [kind |-> "Exception", v |-> 0] ELSE [kind |-> "value", v |-> 1])
    ELSE (IF calls = 1 THEN [kind |-> "BaseException", v |-> 0] ELSE [kind |-> "value", v |-> 0])

CustomAlgoWrapper(n, seed, entropy, entry_fn) ==
    [AlgorithmBase("custom", n, seed, entropy) EXCEPT !.entry = entry_fn]

\* variant: the upper limit of the clamp is n_actions
ClampInclusive(n, a) == IF a < 0 THEN 0 ELSE IF a > n THEN n ELSE a

\* max(0, min(n_actions - 1, a))
Clamp(n, a) == IF a < 0 THEN 0 ELSE IF a > n - 1 THEN n - 1 ELSE a

\* the state dict select_action hands to the function
Snapshot(w) ==
    [n_actions |-> w.n_actions, t |-> w.t, last_action |-> w.last_action,
     last_reward |-> w.last_reward, seed |-> w.seed]

\* variant: t counts the calls of select_action
CustomAlgoWrapper_select_action_counts(w) ==
    LET res == Entry(w.entry, Snapshot(w), w.calls)
        w1 == [w EXCEPT !.calls = @ + 1, !.t = @ + 1]
    IN IF res.kind = "value"
       THEN Selected(Clamp(w.n_actions, res.v), w1)
       ELSE Raised(res.kind, w1)

\* `except Exception` turns what the function raises into a RuntimeError; an
\* exception that is not an Exception (SystemExit, KeyboardInterrupt) passes
CustomAlgoWrapper_select_action(w) ==
    LET res == Entry(w.entry, Snapshot(w), w.calls)
        w1 == [w EXCEPT !.calls = @ + 1]
    IN IF res.kind = "value"
       THEN Selected(Clamp(w.n_actions, res.v), w1)
       ELSE Raised(res.kind, w1)

CustomAlgoWrapper_update(w, action, reward) ==
    [w EXCEPT !.last_action = <<action>>, !.last_reward = <<reward>>, !.t = @ + 1]

\* algo.select_action(), by the class of the object
select_action(a) ==
    IF a.kind = "greedy" THEN Greedy_select_action(a)
    ELSE IF a.kind = "epsilon_greedy" THEN EpsilonGreedy_select_action(a)
    ELSE IF a.kind = "ucb1" THEN UCB1_select_action(a)
    ELSE IF a.kind = "thompson" THEN ThompsonSampling_select_action(a)
    ELSE CustomAlgoWrapper_select_action(a)

\* algo.update(action, reward), by the class of the object
update(a, action, reward) ==
    IF a.kind = "greedy" THEN Greedy_update(a, action, reward)
    ELSE IF a.kind = "epsilon_greedy" THEN EpsilonGreedy_update(a, action, reward)
    ELSE IF a.kind = "ucb1" THEN UCB1_update(a, action, reward)
    ELSE IF a.kind = "thompson" THEN ThompsonSampling_update(a, action, reward)
    ELSE CustomAlgoWrapper_update(a, action, reward)

\* ALGOS[key](n_actions, seed=seed); EpsilonGreedy's default epsilon is 0.1
ALGOS == {"greedy", "epsilon_greedy", "ucb1", "thompson"}

NewBuiltin(key, n, seed, entropy) ==
    IF key = "greedy" THEN Greedy(n, seed, entropy)
    ELSE IF key = "epsilon_greedy" THEN EpsilonGreedy(n, seed, entropy, 1)
    ELSE IF key = "ucb1" THEN UCB1(n, seed, entropy)
    ELSE ThompsonSampling(n, seed, entropy)

(* ----------------------------- session store -------------------------- *)

\* variant: a session is dropped already when exactly PLAY_TTL has passed
ExpiredAtTtl(s, t) == t - s.last_access >= PLAY_TTL

Expired(s, t) == t - s.last_access > PLAY_TTL

gc(store, t) ==
    [k \in {j \in DOMAIN store : ~Expired(store[j], t)} |-> store[k]]

\* variant: a lookup that falls back to some stored session
GetAny(store, sid) ==
    IF sid \in DOMAIN store THEN <<store[sid]>>
    ELSE IF DOMAIN store = {} THEN <<>>
    ELSE <<store[CHOOSE k \in DOMAIN store : TRUE]>>

\* PLAY.get(session_id): <<>> for None
Get(store, sid) == IF sid \in DOMAIN store THEN <<store[sid]>> ELSE <<>>

\* PLAY[sid] = s
Put(store, sid, s) ==
    [k \in DOMAIN store \cup {sid} |-> IF k = sid THEN s ELSE store[k]]

\* variant: a pop that only reads
PopKeeps(store, sid) == store

\* PLAY.pop(session_id, None)
Pop(store, sid) == [k \in DOMAIN store \ {sid} |-> store[k]]

\* variant: ids drawn without regard to the ids already handed out
uuid4Reused(used) == Ids

\* uuid.uuid4().hex: an id never handed out before
uuid4(used) == Ids \ used

ValidStart(env_type, n, iterations) ==
    /\ env_type \in {"bernoulli", "gaussian"}
    /\ n >= 2 /\ n <= 100
    /\ iterations >= 1 /\ iterations <= 10000

NewSession(sid, env, iterations, seed, t) ==
    [id |-> sid, env |-> env, iterations |-> iterations, t |-> 0,
     history |-> <<>>, last_access |-> t, seed |-> seed]

ActionOutOfRange(s, action) == action < 0 \/ action >= s.env.n_actions

\* variant: the horizon test is off by one
TerminalLate(s) == s.t > s.iterations

Terminal(s) == s.t >= s.iterations

\* variant: the horizon is tested before the action range
StepOutcomeTerminalFirst(s, action) ==
    IF Terminal(s) THEN "terminal"
    ELSE IF ActionOutOfRange(s, action) THEN "out of range"
    ELSE "advance"

\* the order of the checks of api_play_step once the session is found
StepOutcome(s, action) ==
    IF ActionOutOfRange(s, action) THEN "out of range"
    ELSE IF Terminal(s) THEN "terminal"
    ELSE "advance"

StepEvent(s, action) ==
    LET r == StepReward(s.env, action)
    IN IF s.env.type = "bernoulli"
       THEN [t |-> s.t + 1, action |-> action, reward |-> r, accepted |-> r >= Fix(1)]
       ELSE [t |-> s.t + 1, action |-> action, reward |-> r]

\* variant: the event is built before t is incremented
StepSessionStaleT(s, action, t) ==
    [s EXCEPT !.env = StepEnv(s.env),
              !.t = s.t + 1,
              !.last_access = t,
              !.history = Append(s.history, [StepEvent(s, action) EXCEPT !.t = s.t])]

StepSession(s, action, t) ==
    [s EXCEPT !.env = StepEnv(s.env),
              !.t = s.t + 1,
              !.last_access = t,
              !.history = Append(s.history, StepEvent(s, action))]

LogSession(s, t) == [s EXCEPT !.last_access = t]

\* variant: reset calls env.reset(), which draws the parameters anew
ResetSessionRedraw(s, t) ==
    [s EXCEPT !.t = 0, !.history = <<>>, !.last_access = t,
              !.env = IF s.env.type = "bernoulli"
                      THEN BernoulliReset(s.env.n_actions, s.env.rng)
                      ELSE GaussianReset(s.env.n_actions, s.env.rng)]

\* variant: reset also rewinds the environment's generator
ResetSessionRewind(s, t) ==
    [s EXCEPT !.t = 0, !.history = <<>>, !.last_access = t,
              !.env.rng.pos = InitialPos(s.env)]

ResetSession(s, t) == [s EXCEPT !.t = 0, !.history = <<>>, !.last_access = t]

Response(op, sid, arg, code, body) ==
    [op |-> op, sid |-> sid, arg |-> arg, code |-> code, body |-> body]

(* ------------------------------- the clock ---------------------------- *)

\* the clock readings explored: time 0, and up to MaxJitter seconds after
\* one whole TTL period
ClockOk(t) == t = 0 \/ (t >= PLAY_TTL /\ t <= PLAY_TTL + MaxJitter)

Tick(d) ==
    /\ ClockOk(now + d)
    /\ now' = now + d
    /\ UNCHANGED <<PLAY, issued, resp>>

(* ------------------------------- handlers ----------------------------- *)

Init ==
    /\ PLAY = <<>>
    /\ now = 0
    /\ issued = {}
    /\ resp = Response("health", 0, 0, 200, [ok |-> TRUE])

api_play_start(req) ==
    IF ~ValidStart(req.env, req.n_actions, req.iterations)
    THEN /\ resp' = Response("start", 0, 0, 400, [error |-> "invalid payload"])
         /\ UNCHANGED <<PLAY, now, issued>>
    ELSE \E entropy \in Entropy, sid \in uuid4(issued), lag \in GcLags :
         /\ ClockOk(now + lag)
         /\ LET env == make_env(req.env, req.n_actions, req.seed, entropy)
                s == NewSession(sid, env, req.iterations, req.seed, now)
            IN /\ PLAY' = gc(Put(PLAY, sid, s), now + lag)
               /\ resp' = Response("start", sid, 0, 200,
                              [session_id |-> sid, env |-> EnvInfo(env), t |-> 0,
                               iterations |-> req.iterations])
         /\ now' = now + lag
         /\ issued' = issued \cup {sid}

api_play_step(sid, action) ==
    /\ UNCHANGED <<now, issued>>
    /\ LET got == Get(PLAY, sid)
       IN IF got = <<>>
          THEN /\ resp' = Response("step", sid, action, 404, [error |-> "invalid session"])
               /\ UNCHANGED PLAY
          ELSE LET s == got[1]
               IN IF StepOutcome(s, action) = "out of range"
                  THEN /\ resp' = Response("step", sid, action, 400,
                                      [error |-> "action out of range"])
                       /\ UNCHANGED PLAY
                  ELSE IF StepOutcome(s, action) = "terminal"
                  THEN /\ resp' = Response("step", sid, action, 200,
                                      [t |-> s.t, done |-> TRUE])
                       /\ UNCHANGED PLAY
                  ELSE /\ s.env.rng.pos < InitialPos(s.env) + MaxDraws
                       /\ LET s2 == StepSession(s, action, now)
                          IN /\ PLAY' = [PLAY EXCEPT ![s.id] = s2]
                             /\ resp' = Response("step", sid, action, 200,
                                            [ev |-> s2.history[Len(s2.history)],
                                             done |-> s2.t >= s2.iterations])

api_play_log(sid) ==
    /\ UNCHANGED <<now, issued>>
    /\ LET got == Get(PLAY, sid)
       IN IF got = <<>>
          THEN /\ resp' = Response("log", sid, 0, 404, [error |-> "invalid session"])
               /\ UNCHANGED PLAY
          ELSE LET s2 == LogSession(got[1], now)
               IN /\ PLAY' = [PLAY EXCEPT ![s2.id] = s2]
                  /\ resp' = Response("log", sid, 0, 200,
                                 [t |-> s2.t, iterations |-> s2.iterations,
                                  history |-> s2.history, env |-> EnvInfo(s2.env)])

api_play_end(sid) ==
    /\ UNCHANGED <<now, issued>>
    /\ PLAY' = gc(Pop(PLAY, sid), now)
    /\ resp' = Response("end", sid, 0, 200, [ok |-> Get(PLAY, sid) # <<>>])

api_play_reset(sid) ==
    /\ UNCHANGED <<now, issued>>
    /\ LET got == Get(PLAY, sid)
       IN IF got = <<>>
          THEN /\ resp' = Response("reset", sid, 0, 404, [error |-> "invalid session"])
               /\ UNCHANGED PLAY
          ELSE LET s2 == ResetSession(got[1], now)
               IN /\ PLAY' = [PLAY EXCEPT ![s2.id] = s2]
                  /\ resp' = Response("reset", sid, 0, 200, [ok |-> TRUE, t |-> 0])

(* --------------------------------- plot ------------------------------- *)

\* ALGO_DIR: the uploaded algorithms by id, each with the display name of
\* its meta.json, the function its entry symbol is bound to, and what loading
\* its module does: "ok", "Exception" (the module raises or has no callable
\* entry) or "BaseException" (the module calls sys.exit() when executed).
\* The id "gone" has no meta.json; the ids "cyc" and "dup" were uploaded
\* under the same display name.
ALGO_DIR ==
    [cyc |-> [name |-> "cycle", entry |-> "cycle", load |-> "ok"],
     dup |-> [name |-> "cycle", entry |-> "walk", load |-> "ok"],
     flk |-> [name |-> "flaky", entry |-> "flaky", load |-> "ok"],
     ext |-> [name |-> "exit", entry |-> "exit", load |-> "ok"],
     bad |-> [name |-> "bad", entry |-> "run", load |-> "Exception"],
     die |-> [name |-> "die", entry |-> "run", load |-> "BaseException"]]

\* _load_meta(aid): <<>> for None
load_meta(aid) == IF aid \in DOMAIN ALGO_DIR THEN <<ALGO_DIR[aid]>> ELSE <<>>

\* _import_callable(module_path, entry_name): the function, or what it raises
import_callable(meta) ==
    IF meta.load = "ok" THEN [raised |-> "", fn |-> meta.entry]
    ELSE [raised |-> meta.load, fn |-> ""]

\* the key of a policy in algs and traces: the built-in key itself, or
\* "custom:" followed by the display name
Label(custom, name) == [custom |-> custom, name |-> name]

\* one entry of errors: "unknown algorithm ... skipped", "custom id ... not
\* found", "[custom:...] load ... failed", "[algo ...] t=... error"
Warning(kind, who, t) == [kind |-> kind, who |-> who, t |-> t]

\* d[name] = a on an insertion-ordered dict, kept as a list of entries
DictSet(d, name, a) ==
    IF \E i \in 1..Len(d) : d[i].name = name
    THEN [i \in 1..Len(d) |-> IF d[i].name = name THEN [name |-> name, algo |-> a] ELSE d[i]]
    ELSE Append(d, [name |-> name, algo |-> a])

\* int(req.iterations or s.iterations)
PlotIterations(req_iterations, s) ==
    IF req_iterations = <<>> \/ req_iterations[1] = 0 THEN s.iterations ELSE req_iterations[1]

\* variant: the batch runs on a copy of the live environment, generator
\* position included
PlotEnvLive(s, entropy) == s.env

\* the environment api_plot rebuilds: a new object seeded with the session's
\* seed, its drawn parameters overwritten with the live ones
PlotEnv(s, entropy) ==
    IF s.env.type = "bernoulli"
    THEN [BernoulliReset(s.env.n_actions, NewRng(s.seed, entropy)) EXCEPT
             !.p = EnvInfo(s.env).p]
    ELSE [GaussianReset(s.env.n_actions, NewRng(s.seed, entropy)) EXCEPT
             !.means = EnvInfo(s.env).means, !.stds = EnvInfo(s.env).stds]

\* variant: the policies are built without the session's seed
PlotSeedNone(s) == <<>>

\* seed = s.seed
PlotSeed(s) == s.seed

\* the loop over req.algorithms; ent[1] is the entropy at hand when the
\* replica is built and ent[1 + k] when the k-th policy object is built
RECURSIVE BuildBuiltins(_, _, _)
BuildBuiltins(ctx, acc, i) ==
    IF i > Len(ctx.algorithms) THEN acc
    ELSE LET key == ctx.algorithms[i]
         IN IF key \notin ALGOS
            THEN BuildBuiltins(ctx,
                     [acc EXCEPT !.errors = Append(@, Warning("unknown", key, 0))], i + 1)
            ELSE BuildBuiltins(ctx,
                     [acc EXCEPT !.algs = DictSet(@, Label(FALSE, key),
                                             NewBuiltin(key, ctx.n, ctx.seed,
                                                        ctx.ent[2 + acc.built])),
                                 !.built = @ + 1],
                     i + 1)

\* the loop over req.custom_algorithms
RECURSIVE BuildCustoms(_, _, _)
BuildCustoms(ctx, acc, i) ==
    IF acc.aborted \/ i > Len(ctx.custom_algorithms) THEN acc
    ELSE LET aid == ctx.custom_algorithms[i]
             meta == load_meta(aid)
             loaded == import_callable(meta[1])
         IN IF meta = <<>>
            THEN BuildCustoms(ctx,
                     [acc EXCEPT !.errors = Append(@, Warning("not found", aid, 0))], i + 1)
            ELSE IF loaded.raised = "Exception"
            THEN BuildCustoms(ctx,
                     [acc EXCEPT !.errors = Append(@, Warning("load", aid, 0))], i + 1)
            ELSE IF loaded.raised = "BaseException"
            THEN [acc EXCEPT !.aborted = TRUE]
            ELSE BuildCustoms(ctx,
                     [acc EXCEPT !.algs = DictSet(@, Label(TRUE, meta[1].name),
                                             CustomAlgoWrapper(ctx.n, ctx.seed,
                                                 ctx.ent[2 + acc.built], loaded.fn)),
                                 !.built = @ + 1],
                     i + 1)

\* the body of the inner loop for policy i at tick t: the try block, its
\* `except Exception` and the two appends
PolicyTick(b, t, i) ==
    LET sel == select_action(b.algs[i].algo)
        r == StepReward(b.env, sel.action)
    IN IF sel.raised = "BaseException"
       THEN [b EXCEPT !.algs[i].algo = sel.algo, !.aborted = TRUE]
       ELSE IF sel.raised = "Exception"
       THEN [b EXCEPT !.algs[i].algo = sel.algo,
                      !.errors = Append(@, Warning("algo", b.algs[i].name, t)),
                      !.traces[i].actions = Append(@, 0),
                      !.traces[i].rewards = Append(@, 0)]
       ELSE [b EXCEPT !.env = StepEnv(@),
                      !.algs[i].algo = update(sel.algo, sel.action, r),
                      !.traces[i].actions = Append(@, sel.action),
                      !.traces[i].rewards = Append(@, r)]

\* variant: the policies are served last to first
RECURSIVE RunPoliciesReversed(_, _, _)
RunPoliciesReversed(b, t, i) ==
    IF b.aborted \/ i > Len(b.algs) THEN b
    ELSE RunPoliciesReversed(PolicyTick(b, t, Len(b.algs) + 1 - i), t, i + 1)

\* for name, algo in algs.items()
RECURSIVE RunPolicies(_, _, _)
RunPolicies(b, t, i) ==
    IF b.aborted \/ i > Len(b.algs) THEN b
    ELSE RunPolicies(PolicyTick(b, t, i), t, i + 1)

\* for t in range(iterations)
RECURSIVE RunBatch(_, _, _)
RunBatch(b, t, iterations) ==
    IF b.aborted \/ t >= iterations THEN b
    ELSE RunBatch(RunPolicies(b, t, 1), t + 1, iterations)

RECURSIVE Sum(_)
Sum(rewards) == IF rewards = <<>> THEN 0 ELSE rewards[1] + Sum(Tail(rewards))

\* mean_reward and final_avg_reward of one trace, in units of 1 / (10 * QUnit)
Summary(trace) ==
    LET mean == IF trace.rewards = <<>> THEN 0
                ELSE (Sum(trace.rewards) * QUnit) \div Len(trace.rewards)
    IN [name |-> trace.name, mean_reward |-> mean, final_avg_reward |-> mean]

\* the answer when no policy was built
EmptyTrace(iterations) ==
    [name |-> "empty_trace",
     actions |-> [k \in 1..iterations |-> k - 1],
     rewards |-> [k \in 1..iterations |-> 0]]

\* the values of OS entropy at hand while one request builds k objects
EntropyDraws(k) == [1..k -> Entropy]

\* the draws that can matter: random.Random(seed) reads the entropy only
\* when seed is None
EntropyRead(seed, k) ==
    IF seed = <<>> THEN EntropyDraws(k)
    ELSE {[i \in 1..k |-> CHOOSE e \in Entropy : TRUE]}

\* the response once the batch has run: b0 the locals before the loop, b
\* after it
PlotAnswer(s, iterations, b0, b) ==
    [aborted |-> b.aborted,
     env |-> b.env,
     locals |-> [draws |-> b.env.rng.pos - b0.env.rng.pos, algs |-> b.algs,
                 errors |-> b.errors],
     body |-> [env |-> EnvInfo(s.env), iterations |-> iterations,
               traces |-> IF b0.algs = <<>> THEN <<EmptyTrace(iterations)>> ELSE b.traces,
               summary |-> IF b0.algs = <<>>
                           THEN <<[name |-> "empty_trace", mean_reward |-> 0,
                                   final_avg_reward |-> 0]>>
                           ELSE [i \in 1..Len(b.traces) |-> Summary(b.traces[i])],
               warnings |-> b.errors]]

\* the batch: nothing to run when no policy was built
PlotRun(s, iterations, b0) ==
    PlotAnswer(s, iterations, b0,
               IF b0.algs = <<>> THEN b0 ELSE RunBatch(b0, 0, iterations))

\* the locals before the loop, from the policies built
PlotBuilt(s, iterations, env, built) ==
    PlotRun(s, iterations,
            [env |-> env, algs |-> built.algs, errors |-> built.errors,
             aborted |-> built.aborted,
             traces |-> [i \in 1..Len(built.algs) |->
                            [name |-> built.algs[i].name, actions |-> <<>>,
                             rewards |-> <<>>]]])

\* Everything api_plot computes once the session is found: whether an
\* exception left the handler, the replica environment at the end, the other
\* local variables at the end (algs, errors, and the number of draws the
\* batch took from the replica), and the response body.
Plot(req, s, ent) ==
    PlotBuilt(s, PlotIterations(req.iterations, s), PlotEnv(s, ent[1]),
              BuildCustoms(
                  [algorithms |-> req.algorithms,
                   custom_algorithms |-> req.custom_algorithms,
                   n |-> s.env.n_actions, seed |-> PlotSeed(s), ent |-> ent],
                  BuildBuiltins(
                      [algorithms |-> req.algorithms,
                       custom_algorithms |-> req.custom_algorithms,
                       n |-> s.env.n_actions, seed |-> PlotSeed(s), ent |-> ent],
                      [algs |-> <<>>, errors |-> <<>>, aborted |-> FALSE, built |-> 0], 1),
                  1))

\* variant: the batch runs on the live environment itself
LiveAfterPlotShared(s, env) == [s EXCEPT !.env = env]

\* the live session after a plot: api_plot assigns to nothing of s, and env
\* is an object of its own with copies of the parameter lists
LiveAfterPlot(s, env) == s

\* the policy objects a request can get built: one for each key that is a
\* built-in and each id whose function loads
Constructed(req) ==
    Cardinality({i \in 1..Len(req.algorithms) : req.algorithms[i] \in ALGOS})
    + Cardinality({i \in 1..Len(req.custom_algorithms) :
                      /\ load_meta(req.custom_algorithms[i]) # <<>>
                      /\ import_callable(load_meta(req.custom_algorithms[i])[1]).raised = ""})

\* A response with the handler's local variables at its end.  An exception
\* that leaves the handler ends the request without a plot answer, which is
\* recorded as code 500.
api_plot(req) ==
    /\ UNCHANGED <<now, issued>>
    /\ LET got == Get(PLAY, req.session_id)
       IN IF got = <<>>
          THEN /\ resp' = Response("plot", req.session_id, req, 404,
                              [error |-> "invalid session"])
               /\ UNCHANGED PLAY
          ELSE \E ent \in EntropyRead(got[1].seed, 1 + Constructed(req)) :
                  \E res \in {Plot(req, got[1], ent)} :
                     /\ PLAY' = [PLAY EXCEPT ![got[1].id] = LiveAfterPlot(got[1], res.env)]
                     /\ resp' = (IF res.aborted
                                 THEN Response("plot", req.session_id, req, 500,
                                          [error |-> "internal server error"])
                                 ELSE Response("plot", req.session_id, req, 200, res.body))
                                    @@ [locals |-> res.locals]

\* PlotReq(**payload)
PlotReq(sid, algorithms, custom_algorithms, iterations) ==
    [session_id |-> sid, algorithms |-> algorithms,
     custom_algorithms |-> custom_algorithms, iterations |-> iterations]

\* no policy object is exercised while the server runs
PolicyIdle ==
    /\ algo = <<>>
    /\ twin = <<>>
    /\ out = <<>>
    /\ drive = <<>>
    /\ seen = <<>>

\* the server after start-up
ServerInit ==
    /\ Init
    /\ PolicyIdle

Next ==
    \/ UNCHANGED aux /\ \E d \in {1, PLAY_TTL} : Tick(d)
    \/ UNCHANGED aux /\ \E req \in StartInputs : api_play_start(req)
    \/ UNCHANGED aux /\ \E sid \in Ids, action \in ActionInputs : api_play_step(sid, action)
    \/ UNCHANGED aux /\ \E sid \in Ids : api_play_log(sid)
    \/ UNCHANGED aux /\ \E sid \in Ids : api_play_end(sid)
    \/ UNCHANGED aux /\ \E sid \in Ids : api_play_reset(sid)
    \/ UNCHANGED aux /\ \E sid \in Ids, it \in PlotIterInputs :
             api_plot(PlotReq(sid, <<>>, <<>>, it))

Spec == ServerInit /\ [][Next]_allvars

(* ---------------------- one policy object on its own ------------------ *)

\* the policy objects exercised: every built-in class, two and three arms,
\* two seeds; the rewards fed to update: 0.0, 1.0 and a Gaussian 0.4
PolicyArms == {2, 3}
PolicySeeds == {<<0>>, <<1>>}
RewardInputs == {0, Fix(1), 4}

Called(op, action, reward, raised, twin_action) ==
    [op |-> op, action |-> action, reward |-> reward, raised |-> raised,
     twin_action |-> twin_action]

\* a fresh object of some built-in class; next to a Greedy, an
\* EpsilonGreedy(epsilon = 0) built with the same seed
PolicyInit ==
    /\ Init
    /\ \E key \in ALGOS, n \in PolicyArms, seed \in PolicySeeds :
          /\ algo = NewBuiltin(key, n, seed, 0)
          /\ twin = IF key = "greedy" THEN <<EpsilonGreedy(n, seed, 0, 0)>> ELSE <<>>
    /\ out = Called("new", 0, 0, "", <<>>)
    /\ drive = [selects |-> 0, updates |-> 0, paired |-> TRUE, pending |-> <<>>]
    /\ seen = <<>>

\* algo.select_action(), and the same call on the object kept in lockstep
PolicySelect ==
    /\ drive.selects < MaxSelects
    /\ LET res == select_action(algo)
           tres == IF twin = <<>> THEN <<>> ELSE <<select_action(twin[1])>>
       IN /\ algo' = res.algo
          /\ twin' = IF tres = <<>> THEN <<>> ELSE <<tres[1].algo>>
          /\ out' = Called("select", res.action, 0, res.raised,
                           IF tres = <<>> THEN <<>> ELSE <<tres[1].action>>)
          /\ drive' = [drive EXCEPT !.selects = @ + 1,
                                    !.paired = @ /\ drive.pending = <<>>,
                                    !.pending = <<res.action>>]
    /\ UNCHANGED <<vars, seen>>

\* algo.update(action, reward), whether or not a select_action came before
PolicyUpdate(action, reward) ==
    /\ drive.updates < MaxUpdates
    /\ action < algo.n_actions
    /\ algo' = update(algo, action, reward)
    /\ twin' = IF twin = <<>> THEN <<>> ELSE <<update(twin[1], action, reward)>>
    /\ out' = Called("update", action, reward, "", <<>>)
    /\ drive' = [drive EXCEPT !.updates = @ + 1,
                              !.paired = @ /\ drive.pending = <<action>>,
                              !.pending = <<>>]
    /\ UNCHANGED <<vars, seen>>

PolicyNext ==
    \/ PolicySelect
    \/ \E action \in 0..2, reward \in RewardInputs : PolicyUpdate(action, reward)

PolicySpec == PolicyInit /\ [][PolicyNext]_allvars

(* ------------------------- plot batches on a session ------------------ *)

\* the sessions plotted: seeded Bernoulli and Gaussian ones and an unseeded one
PlotStartInputs ==
    {[env |-> "bernoulli", n_actions |-> 2, iterations |-> 2, seed |-> <<0>>],
     [env |-> "gaussian", n_actions |-> 2, iterations |-> 2, seed |-> <<1>>],
     [env |-> "gaussian", n_actions |-> 3, iterations |-> 1, seed |-> <<>>]}

\* the plot payloads sent: built-in keys alone, unknown keys, ids without
\* metadata, modules that fail to load, functions that raise, and no
\* algorithm at all, a key listed twice and two ids of one display name,
\* with iterations absent, 0, negative and 3
BatchInputs(sid) ==
    {PlotReq(sid, <<"ucb1">>, <<>>, <<3>>),
     PlotReq(sid, <<"greedy", "thompson">>, <<>>, <<>>),
     PlotReq(sid, <<"epsilon_greedy", "nope">>, <<"flk", "gone", "bad">>, <<3>>),
     PlotReq(sid, <<"thompson">>, <<"cyc">>, <<3>>),
     PlotReq(sid, <<"nope">>, <<"gone", "bad">>, <<3>>),
     PlotReq(sid, <<"nope">>, <<"gone", "bad">>, <<0>>),
     PlotReq(sid, <<>>, <<>>, <<>>),
     PlotReq(sid, <<"greedy">>, <<>>, <<-1>>),
     PlotReq(sid, <<"greedy", "greedy">>, <<"cyc", "dup">>, <<3>>),
     PlotReq(sid, <<"ucb1">>, <<"ext">>, <<3>>),
     PlotReq(sid, <<"greedy">>, <<"die", "cyc">>, <<>>)}

\* what is kept of an answered plot, to compare a later one with: the
\* response and the live session's t when it was served
Remembered(r, s) == [resp |-> r, t |-> s.t]

\* one session at a time; a plot of built-in policies answered 200 for a
\* seeded session may be remembered
PlotNext ==
    \/ UNCHANGED aux /\ issued = {} /\ \E req \in PlotStartInputs : api_play_start(req)
    \/ UNCHANGED aux /\ \E sid \in Ids, action \in ActionInputs : api_play_step(sid, action)
    \/ UNCHANGED aux /\ \E sid \in Ids : api_play_reset(sid)
    \/ /\ UNCHANGED pvars
       /\ \E sid \in Ids : \E req \in BatchInputs(sid) : api_plot(req)
       /\ seen' \in IF /\ seen = <<>>
                       /\ resp'.code = 200
                       /\ PLAY[resp'.sid].seed # <<>>
                       /\ resp'.arg.custom_algorithms = <<>>
                    THEN {seen, <<Remembered(resp', PLAY[resp'.sid])>>}
                    ELSE {seen}

PlotSpec == ServerInit /\ [][PlotNext]_allvars

(* ----------------------- two sessions side by side -------------------- *)

\* the sessions started: two payloads that differ in the seed only, a
\* seeded Gaussian one and an unseeded one
PairStartInputs ==
    {[env |-> "bernoulli", n_actions |-> 2, iterations |-> 2, seed |-> <<0>>],
     [env |-> "bernoulli", n_actions |-> 2, iterations |-> 2, seed |-> <<1>>],
     [env |-> "gaussian", n_actions |-> 2, iterations |-> 2, seed |-> <<1>>],
     [env |-> "gaussian", n_actions |-> 2, iterations |-> 2, seed |-> <<>>]}

PairActions == {0, 1}

\* the session a request leaves when the store holds that session alone
Alone(op, s, arg, t) ==
    IF op = "step"
    THEN (IF StepOutcome(s, arg) = "advance" THEN StepSession(s, arg, t) ELSE s)
    ELSE IF op = "log" THEN LogSession(s, t)
    ELSE IF op = "reset" THEN ResetSession(s, t)
    ELSE s

\* every session as its own requests alone leave it
AloneStore(store, op, sid, arg, t) ==
    IF sid \in DOMAIN store
    THEN [store EXCEPT ![sid] = Alone(op, store[sid], arg, t)]
    ELSE store

\* requests on two sessions in any order; seen follows each session through
\* its own requests only
PairNext ==
    \/ /\ UNCHANGED pvars
       /\ \E req \in PairStartInputs : api_play_start(req)
       /\ seen' = Put(seen, resp'.sid, PLAY'[resp'.sid])
    \/ /\ UNCHANGED pvars
       /\ \E sid \in Ids, action \in PairActions : api_play_step(sid, action)
       /\ seen' = AloneStore(seen, "step", resp'.sid, resp'.arg, now)
    \/ /\ UNCHANGED pvars
       /\ \E sid \in Ids : api_play_log(sid)
       /\ seen' = AloneStore(seen, "log", resp'.sid, 0, now)
    \/ /\ UNCHANGED pvars
       /\ \E sid \in Ids : api_play_reset(sid)
       /\ seen' = AloneStore(seen, "reset", resp'.sid, 0, now)
    \/ /\ UNCHANGED pvars
       /\ \E sid \in Ids : api_plot(PlotReq(sid, <<"ucb1">>, <<>>, <<3>>))
       /\ seen' = AloneStore(seen, "plot", resp'.sid, 0, now)

PairSpec == ServerInit /\ [][PairNext]_allvars

(* ---------------------- one adapter object on its own ----------------- *)

\* the functions wrapped, by the name of what they do
AdapterEntries == {"cycle", "walk", "flaky", "exit"}

\* a fresh CustomAlgoWrapper(n_actions, seed, entry_fn)
AdapterInit ==
    /\ Init
    /\ \E fn \in AdapterEntries, n \in PolicyArms, seed \in PolicySeeds \cup {<<>>} :
          algo = CustomAlgoWrapper(n, seed, 0, fn)
    /\ twin = <<>>
    /\ out = Called("new", 0, 0, "", <<>>)
    /\ drive = [selects |-> 0, updates |-> 0, paired |-> TRUE, pending |-> <<>>]
    /\ seen = <<>>

AdapterSpec == AdapterInit /\ [][PolicyNext]_allvars

(* ------------------------ properties of the store --------------------- *)

\* the transition is the step handler serving the request named in resp'
StepServed == resp'.op = "step" /\ api_play_step(resp'.sid, resp'.arg)

LogServed == resp'.op = "log" /\ api_play_log(resp'.sid)

EndServed == resp'.op = "end" /\ api_play_end(resp'.sid)

ResetServed == resp'.op = "reset" /\ api_play_reset(resp'.sid)

PlotServed == resp'.op = "plot" /\ api_plot(resp'.arg)

\* a start request that passed validation
StartServed == resp'.op = "start" /\ resp'.code = 200 /\ \E req \in StartInputs : api_play_start(req)

\* C1: in every reachable state every stored session has 0 <= t <= iterations
\* and a history of exactly t events.
C1_SessionProgress ==
    \A sid \in DOMAIN PLAY :
        /\ 0 <= PLAY[sid].t
        /\ PLAY[sid].t <= PLAY[sid].iterations
        /\ Len(PLAY[sid].history) = PLAY[sid].t

\* C1 witness: a session that has used its whole horizon of two steps.
C1_Witness ==
    \E sid \in DOMAIN PLAY :
        /\ PLAY[sid].iterations = 2
        /\ PLAY[sid].t = 2
        /\ Len(PLAY[sid].history) = 2

\* C2: a step with an in-range action on a session with t < iterations
\* consumes one environment draw, increases t by one, appends one event
\* carrying the new t and the requested action, sets last_access to the time
\* of the request and returns done exactly when the new t has reached
\* iterations.
C2_StepAdvances ==
    [][ ( /\ StepServed
          /\ resp'.sid \in DOMAIN PLAY
          /\ resp'.arg < PLAY[resp'.sid].env.n_actions
          /\ PLAY[resp'.sid].t < PLAY[resp'.sid].iterations )
        => LET sid == resp'.sid
               s == PLAY[sid]
               s2 == PLAY'[sid]
           IN /\ resp'.code = 200
              /\ DOMAIN PLAY' = DOMAIN PLAY
              /\ s2.env.rng = [s.env.rng EXCEPT !.pos = s.env.rng.pos + 1]
              /\ s2.t = s.t + 1
              /\ Len(s2.history) = Len(s.history) + 1
              /\ SubSeq(s2.history, 1, Len(s.history)) = s.history
              /\ s2.history[Len(s2.history)] = resp'.body.ev
              /\ resp'.body.ev.t = s2.t
              /\ resp'.body.ev.action = resp'.arg
              /\ s2.last_access = now
              /\ resp'.body.done = (s2.t >= s2.iterations)
              /\ resp'.body.done = (Len(s2.history) = s2.iterations)
      ]_vars

\* C2 witness: the second step of a two-step session has just returned done.
C2_Witness ==
    /\ resp.op = "step" /\ resp.code = 200
    /\ resp.sid \in DOMAIN PLAY
    /\ "ev" \in DOMAIN resp.body
    /\ resp.body.ev.t = 2
    /\ resp.body.done
    /\ PLAY[resp.sid].t = 2

\* C3: a step with an in-range action on a session with t = iterations
\* returns done = true and leaves the session's t, history and environment
\* (its generator position included) as they were.
C3_TerminalNoOp ==
    [][ ( /\ StepServed
          /\ resp'.sid \in DOMAIN PLAY
          /\ resp'.arg < PLAY[resp'.sid].env.n_actions
          /\ PLAY[resp'.sid].t = PLAY[resp'.sid].iterations )
        => /\ resp'.code = 200
           /\ resp'.body.done
           /\ resp'.sid \in DOMAIN PLAY'
           /\ PLAY'[resp'.sid].t = PLAY[resp'.sid].t
           /\ PLAY'[resp'.sid].history = PLAY[resp'.sid].history
           /\ PLAY'[resp'.sid].env = PLAY[resp'.sid].env
      ]_vars

\* C3 witness: a step answered with the terminal no-op on a finished session.
C3_Witness ==
    /\ resp.op = "step" /\ resp.code = 200
    /\ "t" \in DOMAIN resp.body
    /\ resp.body.done
    /\ resp.sid \in DOMAIN PLAY
    /\ PLAY[resp.sid].t = PLAY[resp.sid].iterations
    /\ resp.arg < PLAY[resp.sid].env.n_actions

\* C4: a step on a stored session with action >= n_actions is answered
\* "action out of range" whatever the session's progress, also at
\* t = iterations, and leaves the store (t, history, generator position and
\* last_access of every session) as it was.
C4_OutOfRange ==
    [][ ( /\ StepServed
          /\ resp'.sid \in DOMAIN PLAY
          /\ resp'.arg >= PLAY[resp'.sid].env.n_actions )
        => /\ resp'.code = 400
           /\ resp'.body.error = "action out of range"
           /\ PLAY' = PLAY
      ]_vars

\* C4 witness: the boundary action n_actions was refused on a session that
\* had already reached its horizon.
C4_Witness ==
    /\ resp.op = "step" /\ resp.code = 400
    /\ resp.sid \in DOMAIN PLAY
    /\ resp.arg = PLAY[resp.sid].env.n_actions
    /\ PLAY[resp.sid].t = PLAY[resp.sid].iterations

\* C5: step, log, reset and plot on an id that is not in the store are
\* answered "invalid session" (404), create no session and leave every
\* stored session as it was.
C5_NotFound ==
    [][ ( /\ StepServed \/ LogServed \/ ResetServed \/ PlotServed
          /\ resp'.sid \notin DOMAIN PLAY )
        => /\ resp'.code = 404
           /\ resp'.body.error = "invalid session"
           /\ PLAY' = PLAY
      ]_vars

\* C5 witness: a request on an absent id was refused while another session
\* was stored.
C5_Witness ==
    /\ resp.op \in {"step", "log", "reset", "plot"}
    /\ resp.code = 404
    /\ resp.sid \notin DOMAIN PLAY
    /\ DOMAIN PLAY # {}

\* C6: a start that passes validation takes an id that was never handed out
\* (so it names no session now or earlier in the store), stores exactly one
\* new session under it with t = 0 and an empty history, and removes or
\* changes no session whose last_access is within the TTL; every stored
\* session is stored under its own id, so no id has two sessions.
C6_StartFresh ==
    [][ StartServed
        => LET sid == resp'.sid
           IN /\ sid \notin issued
              /\ sid \notin DOMAIN PLAY
              /\ DOMAIN PLAY \subseteq issued
              /\ DOMAIN PLAY' \ DOMAIN PLAY = {sid}
              /\ PLAY'[sid].id = sid
              /\ PLAY'[sid].t = 0
              /\ PLAY'[sid].history = <<>>
              /\ \A j \in DOMAIN PLAY :
                    /\ j \in DOMAIN PLAY' => PLAY'[j] = PLAY[j]
                    /\ now' - PLAY[j].last_access <= 1800 => j \in DOMAIN PLAY'
              /\ \A j \in DOMAIN PLAY' : PLAY'[j].id = j
      ]_vars

\* C6 witness: a second session was started next to one that has progressed.
C6_Witness ==
    /\ resp.op = "start" /\ resp.code = 200
    /\ resp.sid \in DOMAIN PLAY
    /\ PLAY[resp.sid].t = 0
    /\ \E j \in DOMAIN PLAY : j # resp.sid /\ PLAY[j].t > 0

\* C7 as claimed: end(id) returns ok exactly when the id was stored, the id
\* is absent afterwards, and an end(id) repeated after an end(id) of an id
\* that had been stored returns ok = false and leaves the store as it was.
C7_EndIdempotentStoreUnchanged ==
    [][ EndServed
        => /\ resp'.code = 200
           /\ resp'.body.ok = (resp'.sid \in DOMAIN PLAY)
           /\ resp'.sid \notin DOMAIN PLAY'
           /\ (resp.op = "end" /\ resp.sid = resp'.sid /\ resp'.sid \in issued)
                 => (~resp'.body.ok /\ PLAY' = PLAY)
      ]_vars

\* C7 amended: end(id) returns ok exactly when the id was stored and the id
\* is absent afterwards; a repeated end(id) returns ok = false without an
\* error and changes the store only by dropping sessions whose last_access
\* is more than the TTL ago; an id that was handed out and has left the
\* store is never stored again, and step, log, reset and plot on it are
\* answered 404.
C7_EndIdempotent ==
    [][ /\ EndServed
          => /\ resp'.code = 200
             /\ resp'.body.ok = (resp'.sid \in DOMAIN PLAY)
             /\ resp'.sid \notin DOMAIN PLAY'
             /\ (resp.op = "end" /\ resp.sid = resp'.sid)
                   => /\ ~resp'.body.ok
                      /\ DOMAIN PLAY' \subseteq DOMAIN PLAY
                      /\ \A j \in DOMAIN PLAY :
                            /\ j \in DOMAIN PLAY' => PLAY'[j] = PLAY[j]
                            /\ j \notin DOMAIN PLAY' => now - PLAY[j].last_access > 1800
        /\ \A j \in issued \ DOMAIN PLAY : j \notin DOMAIN PLAY'
        /\ ( /\ StepServed \/ LogServed \/ ResetServed \/ PlotServed
             /\ resp'.sid \in issued \ DOMAIN PLAY )
           => resp'.code = 404
      ]_vars

\* C7 witness: an end answered ok = false on an id that had been stored,
\* while another session is stored.
C7_Witness ==
    /\ resp.op = "end" /\ ~resp.body.ok
    /\ resp.sid \in issued
    /\ resp.sid \notin DOMAIN PLAY
    /\ DOMAIN PLAY # {}

\* C8: reset on a stored session sets t to 0 and empties the history and
\* keeps the environment: arm parameters and generator (seed and position)
\* are the same after the reset as before it.
C8_ResetKeepsEnv ==
    [][ (ResetServed /\ resp'.sid \in DOMAIN PLAY)
        => /\ resp'.code = 200
           /\ resp'.sid \in DOMAIN PLAY'
           /\ PLAY'[resp'.sid].t = 0
           /\ PLAY'[resp'.sid].history = <<>>
           /\ PLAY'[resp'.sid].env = PLAY[resp'.sid].env
           /\ PLAY'[resp'.sid].iterations = PLAY[resp'.sid].iterations
      ]_vars

\* C8 witness: a step taken after a reset drew from the stream where the
\* steps before the reset had left it (event 1 at the second draw).
C8_Witness ==
    /\ resp.op = "step" /\ resp.code = 200
    /\ "ev" \in DOMAIN resp.body
    /\ resp.body.ev.t = 1
    /\ resp.sid \in DOMAIN PLAY
    /\ PLAY[resp.sid].env.rng.pos = InitialPos(PLAY[resp.sid].env) + 2

\* a handler that touched the store has just returned
StoreOpServed ==
    StartServed \/ StepServed \/ LogServed \/ EndServed \/ ResetServed \/ PlotServed

\* C9 as claimed: after every store-touching operation no stored session has
\* a last_access more than the TTL before the current time, and no step
\* advances a session that had already expired.
C9_SweepOnEveryOperation ==
    [][ /\ StoreOpServed
          => \A j \in DOMAIN PLAY' : now' - PLAY'[j].last_access <= 1800
        /\ (StepServed /\ resp'.code = 200 /\ resp'.sid \in DOMAIN PLAY)
          => now - PLAY[resp'.sid].last_access <= 1800
      ]_vars

\* C10: a session leaves the store only by end on its own id or by the
\* sweep of a start or an end at a time more than the TTL after its
\* last_access; a session within the TTL is never removed by a request on
\* another id, and start never removes the session it has just stored.
C10_RemovalOnlyByEndOrExpiry ==
    [][ /\ \A j \in DOMAIN PLAY :
              j \notin DOMAIN PLAY'
              => \/ EndServed /\ resp'.sid = j
                 \/ /\ StartServed \/ EndServed
                    /\ now' - PLAY[j].last_access > 1800
        /\ StartServed => resp'.sid \in DOMAIN PLAY'
      ]_vars

\* C10 witness: a start at the moment an older session is exactly TTL old
\* kept that session.
C10_Witness ==
    /\ resp.op = "start" /\ resp.code = 200
    /\ resp.sid \in DOMAIN PLAY
    /\ \E j \in DOMAIN PLAY :
          /\ j # resp.sid
          /\ PLAY[resp.sid].last_access - PLAY[j].last_access = 1800
          /\ now - PLAY[j].last_access = 1800

(* ------------------------- properties of plot ------------------------ *)

\* the transition answers a plot request: api_plot alone writes a response
\* whose op is "plot"
PlotAnswered == resp'.op = "plot"

\* C11: a plot, whatever algorithms and iterations it names and whether it
\* is answered 200 or fails, leaves the live session as it was: the same t,
\* history, arm parameters and generator position (the whole store is
\* unchanged), so that the next live step gives, for every arm, the reward it
\* would have given without the plot.
C11_PlotLeavesLive ==
    [][(PlotAnswered /\ resp'.sid \in DOMAIN PLAY) =>
          /\ PLAY' = PLAY
          /\ LET before == PLAY[resp'.sid]
                 after == PLAY'[resp'.sid]
             IN /\ after.t = before.t
                /\ after.history = before.history
                /\ EnvInfo(after.env) = EnvInfo(before.env)
                /\ after.env.rng = before.env.rng
                /\ \A a \in 0..(before.env.n_actions - 1) :
                      StepReward(after.env, a) = StepReward(before.env, a)]_allvars

\* a plot whose batch took three or more draws from its replica was answered
\* for a session that has been stepped once, and the live generator is still
\* one draw past its position after construction
C11_Witness ==
    /\ resp.op = "plot" /\ resp.code = 200
    /\ resp.locals.draws >= 3
    /\ resp.sid \in DOMAIN PLAY
    /\ PLAY[resp.sid].t = 1
    /\ Len(PLAY[resp.sid].history) = 1
    /\ PLAY[resp.sid].env.rng.pos = InitialPos(PLAY[resp.sid].env) + 1

\* C12: for a session started with a seed, a plot of built-in policies
\* answers with the same traces (every policy's actions and rewards) as the
\* remembered earlier plot of the same session with the same algorithm list
\* and iterations, whatever live steps and resets came between, and the
\* traces are the same for every value of the OS entropy at hand while the
\* replica and the policies are built.
C12_PlotDeterministic ==
    [][(/\ PlotAnswered
        /\ resp'.code = 200
        /\ resp'.sid \in DOMAIN PLAY
        /\ PLAY[resp'.sid].seed # <<>>
        /\ resp'.arg.custom_algorithms = <<>>) =>
          /\ \A ent \in EntropyDraws(1 + Len(resp'.arg.algorithms)) :
                Plot(resp'.arg, PLAY[resp'.sid], ent).body.traces = resp'.body.traces
          /\ (seen # <<>> /\ seen[1].resp.arg = resp'.arg) =>
                seen[1].resp.body.traces = resp'.body.traces]_allvars

\* the plot of ["ucb1"] over 3 iterations was answered when the seeded
\* session stood at t = 0 and again, with three actions and rewards, after
\* the session had been stepped to t = 2
C12_Witness ==
    /\ resp.op = "plot" /\ resp.code = 200
    /\ resp.arg.algorithms = <<"ucb1">> /\ resp.arg.iterations = <<3>>
    /\ resp.sid \in DOMAIN PLAY
    /\ PLAY[resp.sid].seed # <<>>
    /\ PLAY[resp.sid].t = 2
    /\ seen # <<>>
    /\ seen[1].resp.arg = resp.arg
    /\ seen[1].t = 0
    /\ Len(resp.body.traces) = 1
    /\ Len(resp.body.traces[1].actions) = 3
    /\ Len(resp.body.traces[1].rewards) = 3

\* the ticks at which an externally supplied function raised: every call
\* of the adapter's select_action counts in calls, every completed tick in t
Failures(a) == IF a.kind = "custom" THEN a.calls - a.t ELSE 0

\* the select_action -> env.step -> update cycles a policy completed
Updates(a) ==
    IF a.kind = "custom" THEN a.t
    ELSE IF a.kind = "thompson"
    THEN Sum(a.successes) + Sum(a.failures) - 2 * a.n_actions
    ELSE Sum(a.counts)

\* the warnings of the batch loop about the policy named who
AlgoWarnings(errors, who) ==
    {k \in 1..Len(errors) : errors[k].kind = "algo" /\ errors[k].who = who}

\* C13: when a policy's select_action raised at some tick of a plot batch,
\* the request is still answered; the trace of that policy holds action 0 and
\* reward 0 at each such tick and one warning names it; the policy was called
\* again at every later tick; and every policy of the batch has a trace of
\* full length and completed its select_action -> env.step -> update cycle at
\* every tick at which it did not itself raise, each cycle taking one draw
\* from the replica.
C13_RaiseIsolated ==
    [][(/\ PlotAnswered
        /\ resp'.sid \in DOMAIN PLAY
        /\ \E i \in 1..Len(resp'.locals.algs) : Failures(resp'.locals.algs[i].algo) > 0) =>
          /\ resp'.code = 200
          /\ Len(resp'.body.traces) = Len(resp'.locals.algs)
          /\ \A i \in 1..Len(resp'.locals.algs) :
                LET a == resp'.locals.algs[i].algo
                    who == resp'.locals.algs[i].name
                    trace == resp'.body.traces[i]
                    warned == AlgoWarnings(resp'.body.warnings, who)
                IN /\ trace.name = who
                   /\ Len(trace.actions) = resp'.body.iterations
                   /\ Len(trace.rewards) = resp'.body.iterations
                   /\ Cardinality(warned) = Failures(a)
                   /\ \A k \in warned :
                         LET t == resp'.body.warnings[k].t
                         IN trace.actions[t + 1] = 0 /\ trace.rewards[t + 1] = 0
                   /\ Updates(a) = resp'.body.iterations - Failures(a)
                   /\ a.kind = "custom" => a.calls = resp'.body.iterations
          /\ resp'.locals.draws =
                Sum([i \in 1..Len(resp'.locals.algs) |-> Updates(resp'.locals.algs[i].algo)])]_allvars

\* C14: a plot that resolves no policy (nothing requested, or only unknown
\* keys and custom ids that do not resolve) and names an iteration count is
\* answered with the single trace empty_trace, whose rewards are all 0 and
\* whose length is the iteration count the request names.
C14_EmptyTraceLength ==
    [][(/\ PlotAnswered
        /\ resp'.sid \in DOMAIN PLAY
        /\ resp'.code = 200
        /\ resp'.locals.algs = <<>>
        /\ resp'.arg.iterations # <<>>
        /\ resp'.arg.iterations[1] >= 0) =>
          /\ Len(resp'.body.traces) = 1
          /\ resp'.body.traces[1].name = "empty_trace"
          /\ \A k \in 1..Len(resp'.body.traces[1].rewards) :
                resp'.body.traces[1].rewards[k] = 0
          /\ Len(resp'.body.traces[1].rewards) = resp'.arg.iterations[1]]_allvars

\* what a plot request names that does not resolve: keys that are no
\* built-in, ids without metadata, ids whose module or entry fails to load
UnknownKeys(req) ==
    {req.algorithms[i] : i \in {j \in 1..Len(req.algorithms) : req.algorithms[j] \notin ALGOS}}

MissingIds(req) ==
    {req.custom_algorithms[i] :
        i \in {j \in 1..Len(req.custom_algorithms) :
                  req.custom_algorithms[j] \notin DOMAIN ALGO_DIR}}

UnloadableIds(req) ==
    {req.custom_algorithms[i] :
        i \in {j \in 1..Len(req.custom_algorithms) :
                  /\ req.custom_algorithms[j] \in DOMAIN ALGO_DIR
                  /\ ALGO_DIR[req.custom_algorithms[j]].load # "ok"}}

\* the names under which the rest of the request is simulated
ResolvedNames(req) ==
    {Label(FALSE, req.algorithms[i]) :
        i \in {j \in 1..Len(req.algorithms) : req.algorithms[j] \in ALGOS}}
    \cup
    {Label(TRUE, ALGO_DIR[req.custom_algorithms[i]].name) :
        i \in {j \in 1..Len(req.custom_algorithms) :
                  /\ req.custom_algorithms[j] \in DOMAIN ALGO_DIR
                  /\ ALGO_DIR[req.custom_algorithms[j]].load = "ok"}}

WarningsOf(warnings, kind, who) ==
    {k \in 1..Len(warnings) : warnings[k].kind = kind /\ warnings[k].who = who}

\* C15: a plot that names an unknown built-in key, a custom id without
\* metadata or a custom id whose module or entry fails to load is still
\* answered; each of these adds exactly one warning and is skipped, and every
\* other algorithm of the request has a trace over the full horizon.
C15_UnresolvedSkipped ==
    [][(/\ PlotAnswered
        /\ resp'.sid \in DOMAIN PLAY
        /\ UnknownKeys(resp'.arg) \cup MissingIds(resp'.arg) \cup UnloadableIds(resp'.arg) # {}) =>
          /\ resp'.code = 200
          /\ LET req == resp'.arg
                 warnings == resp'.body.warnings
                 traces == resp'.body.traces
             IN /\ \A x \in UnknownKeys(req) : Cardinality(WarningsOf(warnings, "unknown", x)) = 1
                /\ \A x \in MissingIds(req) : Cardinality(WarningsOf(warnings, "not found", x)) = 1
                /\ \A x \in UnloadableIds(req) : Cardinality(WarningsOf(warnings, "load", x)) = 1
                /\ Cardinality({k \in 1..Len(warnings) : warnings[k].kind # "algo"}) =
                      Cardinality(UnknownKeys(req)) + Cardinality(MissingIds(req))
                          + Cardinality(UnloadableIds(req))
                /\ {traces[i].name : i \in 1..Len(traces)} =
                      IF ResolvedNames(req) = {} THEN {"empty_trace"} ELSE ResolvedNames(req)
                /\ ResolvedNames(req) # {} =>
                      /\ Len(traces) = Cardinality(ResolvedNames(req))
                      /\ \A i \in 1..Len(traces) :
                            /\ Len(traces[i].actions) = resp'.body.iterations
                            /\ Len(traces[i].rewards) = resp'.body.iterations]_allvars

\* C24: in every plot answer with a policy set that is not empty, the
\* actions and the rewards of every trace have as many entries as the
\* iterations value the answer reports.
C24_TraceLengths ==
    [][(/\ PlotAnswered
        /\ resp'.code = 200
        /\ resp'.locals.algs # <<>>) =>
          \A i \in 1..Len(resp'.body.traces) :
             /\ Len(resp'.body.traces[i].actions) = resp'.body.iterations
             /\ Len(resp'.body.traces[i].rewards) = resp'.body.iterations]_allvars

\* the names a request registers, in registration order: the built-in keys
\* in request order, then the custom algorithms in request order, a name
\* registered again keeping its first place
RECURSIVE Registered(_, _, _)
Registered(req, acc, i) ==
    IF i > Len(req.algorithms) + Len(req.custom_algorithms) THEN acc
    ELSE LET aid == req.custom_algorithms[i - Len(req.algorithms)]
             name == IF i <= Len(req.algorithms) THEN Label(FALSE, req.algorithms[i])
                     ELSE IF aid \in DOMAIN ALGO_DIR THEN Label(TRUE, ALGO_DIR[aid].name)
                     ELSE Label(TRUE, "")
         IN IF name \in ResolvedNames(req) /\ \A k \in 1..Len(acc) : acc[k] # name
            THEN Registered(req, Append(acc, name), i + 1)
            ELSE Registered(req, acc, i + 1)

\* the replica after k draws of the batch
ReplicaAt(env, k) == [env EXCEPT !.rng.pos = @ + k]

\* C25: in a plot in which no tick failed, the traces stand in registration
\* order and the batch takes one draw of the replica per policy and tick;
\* with P policies, the reward of policy i (counted from 0) at tick t is
\* what draw number t * P + i of a replica seeded like the session gives for
\* the action of that policy at that tick.
C25_RegistrationOrder ==
    [][(/\ PlotAnswered
        /\ resp'.code = 200
        /\ resp'.locals.algs # <<>>
        /\ resp'.body.iterations >= 0
        /\ \A k \in 1..Len(resp'.body.warnings) : resp'.body.warnings[k].kind # "algo") =>
          LET traces == resp'.body.traces
              P == Len(traces)
          IN /\ [i \in 1..P |-> traces[i].name] = Registered(resp'.arg, <<>>, 1)
             /\ resp'.locals.draws = P * resp'.body.iterations
             /\ \E e \in Entropy :
                   \A i \in 1..P, t \in 1..resp'.body.iterations :
                      traces[i].rewards[t] =
                         StepReward(ReplicaAt(PlotEnv(PLAY[resp'.sid], e), (t - 1) * P + (i - 1)),
                                    traces[i].actions[t])]_allvars

\* C25 witness: a plot of a built-in and a custom policy over 3 iterations
\* took 6 draws, no tick failed, and at some tick the two policies played
\* the same arm and got different rewards.
C25_Witness ==
    /\ resp.op = "plot" /\ resp.code = 200
    /\ resp.body.iterations = 3
    /\ Len(resp.body.traces) = 2
    /\ resp.body.traces[1].name = Label(FALSE, "thompson")
    /\ resp.body.traces[2].name = Label(TRUE, "cycle")
    /\ resp.body.warnings = <<>>
    /\ resp.locals.draws = 6
    /\ \E t \in 1..3 :
          /\ resp.body.traces[1].actions[t] = resp.body.traces[2].actions[t]
          /\ resp.body.traces[1].rewards[t] # resp.body.traces[2].rewards[t]

\* the session as api_play_start left it: no step taken, the generator
\* just past the draws of the arm parameters
AsStarted(s) ==
    [s EXCEPT !.t = 0, !.history = <<>>, !.env.rng.pos = InitialPos(s.env)]

\* what a plot answers with about the policies
Outcome(body) == [traces |-> body.traces, summary |-> body.summary]

\* C28: for a session started with a seed, the traces and the summary a
\* plot answers with are those the same request gets from the session as it
\* stood right after start (same seed, same arm parameters, t = 0, empty
\* history), whatever t, history and generator position the live session
\* has reached, and they equal the traces and summary of the remembered
\* earlier plot with the same payload, taken at whatever other point of the
\* session's life (not stepped, stepped, done, reset).
C28_PlotIgnoresProgress ==
    [][(/\ PlotAnswered
        /\ resp'.code = 200
        /\ resp'.sid \in DOMAIN PLAY
        /\ PLAY[resp'.sid].seed # <<>>) =>
          /\ \A ent \in EntropyRead(PLAY[resp'.sid].seed, 1 + Constructed(resp'.arg)) :
                Outcome(Plot(resp'.arg, AsStarted(PLAY[resp'.sid]), ent).body)
                   = Outcome(resp'.body)
          /\ (seen # <<>> /\ seen[1].resp.arg = resp'.arg) =>
                Outcome(seen[1].resp.body) = Outcome(resp'.body)]_allvars

\* C28 witness: the plot of ["greedy", "thompson"] over the session's own
\* horizon was remembered when the seeded session was done (t = 2), and is
\* answered again after a reset (t = 0, no history, the live generator two
\* draws past its start), with two traces of two ticks and two summary rows
C28_Witness ==
    /\ resp.op = "plot" /\ resp.code = 200
    /\ resp.arg.algorithms = <<"greedy", "thompson">> /\ resp.arg.iterations = <<>>
    /\ resp.sid \in DOMAIN PLAY
    /\ PLAY[resp.sid].seed # <<>>
    /\ PLAY[resp.sid].t = 0 /\ PLAY[resp.sid].history = <<>>
    /\ PLAY[resp.sid].env.rng.pos = InitialPos(PLAY[resp.sid].env) + 2
    /\ seen # <<>>
    /\ seen[1].resp.arg = resp.arg
    /\ seen[1].t = 2
    /\ Len(resp.body.traces) = 2 /\ Len(resp.body.summary) = 2
    /\ Len(resp.body.traces[2].rewards) = 2

\* the traces of an answer that carry the given name
TracesOf(traces, name) == {j \in 1..Len(traces) : traces[j].name = name}

\* C29: in every plot answered 200, each built-in key of the request has a
\* trace under its name or a warning naming it, each custom id has a trace
\* under its display name or a warning naming the id, and when the request
\* resolves to at least one policy there are as many traces as policy
\* objects were built for it (one per known key listed and one per id whose
\* function loaded), so none is dropped.
C29_AllAccounted ==
    [][(/\ PlotAnswered
        /\ resp'.code = 200
        /\ resp'.sid \in DOMAIN PLAY) =>
          LET req == resp'.arg
              traces == resp'.body.traces
              warnings == resp'.body.warnings
          IN /\ \A i \in 1..Len(req.algorithms) :
                   IF req.algorithms[i] \in ALGOS
                   THEN TracesOf(traces, Label(FALSE, req.algorithms[i])) # {}
                   ELSE WarningsOf(warnings, "unknown", req.algorithms[i]) # {}
             /\ \A i \in 1..Len(req.custom_algorithms) :
                   LET aid == req.custom_algorithms[i]
                   IN IF aid \notin DOMAIN ALGO_DIR
                      THEN WarningsOf(warnings, "not found", aid) # {}
                      ELSE IF ALGO_DIR[aid].load # "ok"
                      THEN WarningsOf(warnings, "load", aid) # {}
                      ELSE TracesOf(traces, Label(TRUE, ALGO_DIR[aid].name)) # {}
             /\ Constructed(req) > 0 => Len(traces) = Constructed(req)]_allvars

(* ------------------------ properties of the policies ------------------ *)

\* the transition is the select_action call recorded in out'
SelectCalled == out'.op = "select" /\ PolicySelect

\* the transition is the update call recorded in out'
UpdateCalled == out'.op = "update" /\ PolicyUpdate(out'.action, out'.reward)

\* the arms of a Greedy that hold the maximal Q-value
TiedArms(g) == {a \in 0..(g.n_actions - 1) : g.q_values[a + 1] = Max(g.q_values)}

\* generator states a policy object can be in
RngStates == [key : 0..2, pos : 0..(2 * MaxSelects)]

\* C16: Greedy.select_action returns an arm whose Q-value is the maximum, in
\* every state any sequence of updates leads to, and for every arm tied for
\* the maximum there is a generator state in which that arm is returned.
C16_GreedyArgmax ==
    /\ [][ (SelectCalled /\ algo.kind = "greedy")
           => /\ out'.raised = ""
              /\ out'.action \in TiedArms(algo)
              /\ algo'.q_values = algo.q_values ]_pvars
    /\ [](algo.kind = "greedy"
           => \A a \in TiedArms(algo) :
                 \E rng \in RngStates :
                    Greedy_select_action([algo EXCEPT !.rng = rng]).action = a)

\* C16 witness: after an update that left two of three arms tied for the
\* maximum, select_action returned the tied arm of higher index.
C16_Witness ==
    /\ algo.kind = "greedy" /\ algo.n_actions = 3
    /\ out.op = "select"
    /\ drive.updates > 0
    /\ Cardinality(TiedArms(algo)) = 2
    /\ out.action \in TiedArms(algo)
    /\ \E a \in TiedArms(algo) : a < out.action

\* C17 as claimed: a Greedy and an EpsilonGreedy(epsilon = 0) built with the
\* same seed and given the same updates return the same arm on every
\* select_action call.
C17_EpsilonZeroIsGreedy ==
    (out.op = "select" /\ out.twin_action # <<>>) => out.twin_action[1] = out.action

\* C18: a fresh UCB1 whose every select_action is followed by update of the
\* returned arm returns arm k on its call number k + 1 for k < n_actions, and
\* total_steps grows by one on every select_action call and counts them.
C18_Ucb1ColdStart ==
    /\ [][ (SelectCalled /\ algo.kind = "ucb1")
           => /\ algo'.total_steps = algo.total_steps + 1
              /\ (drive.paired /\ drive.pending = <<>> /\ drive.selects < algo.n_actions)
                    => (out'.raised = "" /\ out'.action = drive.selects) ]_pvars
    /\ [](algo.kind = "ucb1" => algo.total_steps = drive.selects)

\* C18 witness: the third call of a three-armed UCB1, each earlier call
\* followed by the update of its arm, has returned arm 2.
C18_Witness ==
    /\ algo.kind = "ucb1" /\ algo.n_actions = 3
    /\ out.op = "select" /\ out.action = 2
    /\ drive.paired /\ drive.selects = 3 /\ drive.updates = 2
    /\ algo.total_steps = 3

\* C19: ThompsonSampling.update(a, r) with r = 1.0 adds one to successes[a]
\* and with any other r adds one to failures[a]; it changes no other counter
\* and nothing else of the object.
C19_ThompsonUpdate ==
    [][ (UpdateCalled /\ algo.kind = "thompson")
        => LET a == out'.action + 1
               r == out'.reward
           IN /\ r = 10 => /\ algo'.successes[a] = algo.successes[a] + 1
                           /\ algo'.failures[a] = algo.failures[a]
              /\ r # 10 => /\ algo'.failures[a] = algo.failures[a] + 1
                           /\ algo'.successes[a] = algo.successes[a]
              /\ \A i \in 1..algo.n_actions :
                    i # a => /\ algo'.successes[i] = algo.successes[i]
                             /\ algo'.failures[i] = algo.failures[i]
              /\ algo'.rng = algo.rng
              /\ algo'.n_actions = algo.n_actions ]_pvars

\* C19 witness: an update with the Gaussian reward 0.4 was counted as a
\* failure of an arm that had a success before.
C19_Witness ==
    /\ algo.kind = "thompson"
    /\ out.op = "update" /\ out.reward = 4
    /\ algo.successes[out.action + 1] = 2
    /\ algo.failures[out.action + 1] = 2

\* C20: for every built-in policy and every interleaving of select_action
\* and update calls, select_action raises nothing and returns an arm in
\* 0..n_actions-1; UCB1 computes its score only with every count >= 1 and
\* total_steps >= 1, and both Beta parameters of every ThompsonSampling arm
\* stay >= 1.
C20_SelectNeverRaises ==
    /\ [][ SelectCalled
           => /\ out'.raised = ""
              /\ out'.action \in 0..(algo.n_actions - 1)
              /\ (algo.kind = "ucb1" /\ \A i \in 1..algo.n_actions : algo.counts[i] # 0)
                    => /\ algo'.total_steps >= 1
                       /\ \A i \in 1..algo.n_actions : algo.counts[i] >= 1 ]_pvars
    /\ [](algo.kind = "thompson"
           => \A i \in 1..algo.n_actions : algo.successes[i] >= 1 /\ algo.failures[i] >= 1)

\* C20 witness: a UCB1 that received updates for all its arms and no
\* select_action before has computed its score at total_steps = 1.
C20_Witness ==
    /\ algo.kind = "ucb1"
    /\ out.op = "select" /\ out.raised = ""
    /\ drive.selects = 1 /\ ~drive.paired
    /\ algo.total_steps = 1
    /\ \A i \in 1..algo.n_actions : algo.counts[i] >= 1

(* ------------------------ properties of the adapter ------------------- *)

\* what the wrapped function returns or raises when the adapter calls it now
EntryNow(w) == Entry(w.entry, Snapshot(w), w.calls)

\* C21: whenever the wrapped function returns an integer v, select_action
\* raises nothing and returns 0 for v < 0, n_actions - 1 for v >= n_actions
\* and v otherwise, so that what it returns is always an arm.
C21_AdapterClamps ==
    [][ (SelectCalled /\ algo.kind = "custom" /\ EntryNow(algo).kind = "value")
        => LET v == EntryNow(algo).v
               n == algo.n_actions
           IN /\ out'.raised = ""
              /\ out'.action = (IF v < 0 THEN 0 ELSE IF v >= n THEN n - 1 ELSE v)
              /\ out'.action \in 0..(n - 1) ]_pvars

\* C21 witness: the function of a two-armed adapter returned 3 and
\* select_action returned arm 1.
C21_Witness ==
    /\ algo.kind = "custom" /\ algo.entry = "walk" /\ algo.n_actions = 2
    /\ out.op = "select" /\ out.raised = "" /\ out.action = 1
    /\ algo.t = 2

\* C27: the snapshot the adapter hands to the function has t equal to the
\* number of update calls made on the adapter, and last_action and
\* last_reward null before the first update and afterwards equal to the
\* arguments of the latest update; a select_action call, raising or not, leaves
\* the three as they were, so the call after a raise hands over the same
\* ones; a function that returns the t it is handed makes select_action
\* return the number of updates, clamped.
C27_AdapterTracksState ==
    /\ [](algo.kind = "custom" =>
             /\ Snapshot(algo).t = drive.updates
             /\ drive.updates = 0 =>
                   (Snapshot(algo).last_action = <<>> /\ Snapshot(algo).last_reward = <<>>))
    /\ [][(UpdateCalled /\ algo.kind = "custom") =>
             /\ Snapshot(algo').t = Snapshot(algo).t + 1
             /\ Snapshot(algo').last_action = <<out'.action>>
             /\ Snapshot(algo').last_reward = <<out'.reward>>]_pvars
    /\ [][(SelectCalled /\ algo.kind = "custom") =>
             /\ Snapshot(algo') = Snapshot(algo)
             /\ algo.entry = "cycle" =>
                   out'.action = (IF drive.updates > algo.n_actions - 1
                                  THEN algo.n_actions - 1 ELSE drive.updates)]_pvars

\* C27 witness: the function raised on its second call, after one update;
\* it was called a third time and was handed t = 1 and the arm and reward
\* of that update.
C27_Witness ==
    /\ algo.kind = "custom" /\ algo.entry = "flaky"
    /\ out.op = "select" /\ out.raised = ""
    /\ algo.calls = 3
    /\ drive.updates = 1
    /\ Snapshot(algo).t = 1
    /\ Snapshot(algo).last_action = <<1>>
    /\ Snapshot(algo).last_reward = <<10>>

(* --------------------- properties of sessions side by side ------------ *)

\* the steps a session's environment has served since it was built
Drawn(s) == s.env.rng.pos - InitialPos(s.env)

\* the number, among all steps of the session, of the k-th event of its history
StepNumber(s, k) == Drawn(s) - Len(s.history) + k

\* sessions started with the same environment type, n_actions and seed
SameStart(s1, s2) ==
    /\ s1.env.type = s2.env.type
    /\ s1.env.n_actions = s2.env.n_actions
    /\ s1.seed # <<>>
    /\ s1.seed = s2.seed

\* C22: two sessions started with the same environment type, n_actions and
\* non-null seed report the same arm parameters; the same action at the same
\* step number got the same reward in both, whatever requests on either
\* session and whatever plots came between; and when both have served the
\* same number of steps, the next step gives the same reward for every arm.
C22_SeededSessionsAgree ==
    \A i \in DOMAIN PLAY, j \in DOMAIN PLAY :
        SameStart(PLAY[i], PLAY[j]) =>
            /\ EnvInfo(PLAY[i].env) = EnvInfo(PLAY[j].env)
            /\ \A ki \in 1..Len(PLAY[i].history), kj \in 1..Len(PLAY[j].history) :
                  (/\ StepNumber(PLAY[i], ki) = StepNumber(PLAY[j], kj)
                   /\ PLAY[i].history[ki].action = PLAY[j].history[kj].action)
                      => PLAY[i].history[ki].reward = PLAY[j].history[kj].reward
            /\ Drawn(PLAY[i]) = Drawn(PLAY[j]) =>
                  \A a \in 0..(PLAY[i].env.n_actions - 1) :
                      StepReward(PLAY[i].env, a) = StepReward(PLAY[j].env, a)

\* C22 witness: two sessions with the same seeded start have each taken the
\* same two actions, one of them after a reset and the other not, and hold
\* the same reward for their second step; the last request was a plot.
C22_Witness ==
    /\ resp.op = "plot" /\ resp.code = 200
    /\ DOMAIN PLAY = {1, 2}
    /\ SameStart(PLAY[1], PLAY[2])
    /\ Drawn(PLAY[1]) = 2 /\ Drawn(PLAY[2]) = 2
    /\ Len(PLAY[1].history) = 2 /\ Len(PLAY[2].history) = 1
    /\ PLAY[1].history[2].action = PLAY[2].history[1].action
    /\ PLAY[1].history[2].reward = PLAY[2].history[1].reward

\* the parameters the constructor draws for a generator seeded with key
DrawnAtStart(env) == EnvInfo(make_env(env.type, env.n_actions, <<env.rng.key>>, 0))

\* C23: no request changes the arm parameters of a stored session: after
\* every step, log, reset and plot they are the ones its constructor drew,
\* which start answered with, and every log and plot answer reports them;
\* every reward of a Bernoulli session is 0.0 or 1.0.
C23_ParametersFixed ==
    /\ [][\A sid \in DOMAIN PLAY :
             /\ sid \in DOMAIN PLAY'
             /\ EnvInfo(PLAY'[sid].env) = EnvInfo(PLAY[sid].env)]_allvars
    /\ [][(resp'.op = "start" /\ resp'.code = 200) =>
             /\ resp'.body.env = EnvInfo(PLAY'[resp'.sid].env)
             /\ resp'.body.env = DrawnAtStart(PLAY'[resp'.sid].env)]_allvars
    /\ [](\A sid \in DOMAIN PLAY :
             /\ EnvInfo(PLAY[sid].env) = DrawnAtStart(PLAY[sid].env)
             /\ PLAY[sid].env.type = "bernoulli" =>
                   /\ \A k \in 1..Len(PLAY[sid].history) :
                         PLAY[sid].history[k].reward \in {0, 10}
                   /\ \A a \in 0..(PLAY[sid].env.n_actions - 1) :
                         StepReward(PLAY[sid].env, a) \in {0, 10})
    /\ []((resp.op \in {"log", "plot"} /\ resp.code = 200) =>
             resp.body.env = DrawnAtStart(PLAY[resp.sid].env))

\* C23 witness: a Bernoulli session that was stepped, reset and stepped
\* again, with a reward of 1.0 in its history, answers log with the
\* parameters its constructor drew.
C23_Witness ==
    /\ resp.op = "log" /\ resp.code = 200
    /\ PLAY[resp.sid].env.type = "bernoulli"
    /\ Drawn(PLAY[resp.sid]) = 2
    /\ Len(PLAY[resp.sid].history) = 1
    /\ PLAY[resp.sid].history[1].reward = 10
    /\ resp.body.env = DrawnAtStart(PLAY[resp.sid].env)

\* C26: a step, log or reset request naming one session id leaves every
\* other stored session as it was and removes none; and under every
\* interleaving of the requests on the two ids each session has the t, the
\* history with its rewards and the environment that its own requests alone
\* would have left.
C26_SessionsIndependent ==
    /\ [][(StepServed \/ LogServed \/ ResetServed) =>
             \A j \in DOMAIN PLAY :
                j # resp'.sid => (j \in DOMAIN PLAY' /\ PLAY'[j] = PLAY[j])]_allvars
    /\ [](/\ DOMAIN seen = DOMAIN PLAY
          /\ \A sid \in DOMAIN PLAY :
                /\ PLAY[sid].t = seen[sid].t
                /\ PLAY[sid].history = seen[sid].history
                /\ PLAY[sid].env = seen[sid].env)

\* C26 witness: of two stored sessions one has reached its horizon and
\* the other was stepped, reset and stepped again; the last request was a
\* step on the second while the first stayed as it was.
C26_Witness ==
    /\ DOMAIN PLAY = {1, 2}
    /\ resp.op = "step" /\ resp.code = 200 /\ resp.sid = 2
    /\ PLAY[1].t = 2 /\ Len(PLAY[1].history) = 2
    /\ Drawn(PLAY[2]) = 2 /\ PLAY[2].t = 1
    /\ seen = PLAY

====
